---- MODULE Spec2Model ----
(***************************************************************************)
(* The Telegram "ingestador" bot of src/bot_ingestador_webhook.py: a       *)
(* ConversationHandler collecting a bet Draft field by field and sending   *)
(* it to a Google Sheets web app on confirmation, with an optional dedupe  *)
(* key kept in an Upstash (Redis REST) store.                              *)
(*                                                                         *)
(* Strings are sequences of one-character strings, so that strip, upper,   *)
(* replace, substring search, the teams regex and float() are computed on  *)
(* the text. Floats are exact decimals [k, n, d] (value n/d, d a power of  *)
(* ten) or nan/inf.                                                        *)
(***************************************************************************)
EXTENDS Integers, Sequences, FiniteSets, TLC

(***************************************************************************)
(* Bounds of the model.                                                    *)
(***************************************************************************)
\* gen_bet_id reads a millisecond clock; the model lets it advance this far.
MaxClock == 2
\* The model follows the bot up to this many calls of send_to_sheets (one
\* more in the world of repeated submissions).
MaxSheetCalls == 1

(***************************************************************************)
(* Characters and strings.                                                 *)
(***************************************************************************)
\* The en dash and em dash of the teams regex, held as one character each.
EN_DASH == "EN_DASH"
EM_DASH == "EM_DASH"

LowerLetters == <<"a","b","c","d","e","f","g","h","i","j","k","l","m",
                  "n","o","p","q","r","s","t","u","v","w","x","y","z">>
UpperLetters == <<"A","B","C","D","E","F","G","H","I","J","K","L","M",
                  "N","O","P","Q","R","S","T","U","V","W","X","Y","Z">>
Digits == <<"0","1","2","3","4","5","6","7","8","9">>

RangeOf(s) == {s[i] : i \in 1..Len(s)}
IndexIn(c, s) == CHOOSE i \in 1..Len(s) : s[i] = c

IsSpace(c) == c \in {" ", "\t", "\n"}
IsDigit(c) == c \in RangeOf(Digits)
IsLetter(c) == c \in RangeOf(LowerLetters) \cup RangeOf(UpperLetters)

UpperChar(c) == IF c \in RangeOf(LowerLetters) THEN UpperLetters[IndexIn(c, LowerLetters)] ELSE c
LowerChar(c) == IF c \in RangeOf(UpperLetters) THEN LowerLetters[IndexIn(c, UpperLetters)] ELSE c

\* str.upper(), str.lower()
Upper(s) == [i \in 1..Len(s) |-> UpperChar(s[i])]
Lower(s) == [i \in 1..Len(s) |-> LowerChar(s[i])]

\* str.replace(a, b) for one-character a and b
Replace(s, a, b) == [i \in 1..Len(s) |-> IF s[i] = a THEN b ELSE s[i]]

\* str.strip()
Strip(s) ==
    LET keep == {i \in 1..Len(s) : ~IsSpace(s[i])}
    IN  IF keep = {} THEN <<>>
        ELSE LET lo == CHOOSE i \in keep : \A j \in keep : i <= j
                 hi == CHOOSE i \in keep : \A j \in keep : j <= i
             IN  SubSeq(s, lo, hi)

\* sub in s
Contains(s, sub) ==
    \E i \in 0..(Len(s) - Len(sub)) : SubSeq(s, i + 1, i + Len(sub)) = sub

\* re.sub(r"\s+", " ", s): every run of whitespace becomes one space
RECURSIVE CollapseWs(_)
CollapseWs(s) ==
    IF s = <<>> THEN <<>>
    ELSE IF IsSpace(Head(s))
         THEN IF Len(s) > 1 /\ IsSpace(s[2]) THEN CollapseWs(Tail(s))
              ELSE <<" ">> \o CollapseWs(Tail(s))
         ELSE <<Head(s)>> \o CollapseWs(Tail(s))

(***************************************************************************)
(* Floats.                                                                 *)
(***************************************************************************)
NaN == [k |-> "nan", n |-> 0, d |-> 1]
Inf(sign) == [k |-> "inf", n |-> sign, d |-> 1]

RECURSIVE Reduce(_, _)
Reduce(n, d) ==
    IF d > 1 /\ n % 10 = 0 THEN Reduce(n \div 10, d \div 10)
    ELSE [k |-> "fin", n |-> n, d |-> d]

\* the float n/d
Dec(n, d) == Reduce(n, d)

\* a < b on floats: every comparison with nan is false
FLt(a, b) ==
    CASE a.k = "nan" \/ b.k = "nan" -> FALSE
      [] a.k = "inf" /\ b.k = "inf" -> a.n < b.n
      [] a.k = "inf" -> a.n < 0
      [] b.k = "inf" -> b.n > 0
      [] OTHER -> a.n * b.d < b.n * a.d
\* a <= b on floats
FLe(a, b) == a.k # "nan" /\ b.k # "nan" /\ ~FLt(b, a)
\* bool(x) of a float: false for 0.0 only
FTruthy(a) == ~(a.k = "fin" /\ a.n = 0)

RECURSIVE IntOf(_)
IntOf(ds) ==
    IF ds = <<>> THEN 0
    ELSE IntOf(SubSeq(ds, 1, Len(ds) - 1)) * 10 + (IndexIn(ds[Len(ds)], Digits) - 1)

RECURSIVE Pow10(_)
Pow10(k) == IF k = 0 THEN 1 ELSE 10 * Pow10(k - 1)

Failure == [ok |-> FALSE, v |-> NaN]
Success(v) == [ok |-> TRUE, v |-> v]

\* float(s): [ok, v], ok false where Python raises ValueError. Covers an
\* optional sign, digits with at most one dot, and nan / inf / infinity;
\* exponents and digit-group underscores are not among the model's texts.
PyFloat(s) ==
    LET t == Strip(s)
        signed == t # <<>> /\ t[1] \in {"+", "-"}
        sign == IF signed /\ t[1] = "-" THEN -1 ELSE 1
        body == IF signed THEN Tail(t) ELSE t
        word == Lower(body)
        dots == {i \in 1..Len(body) : body[i] = "."}
    IN  IF word = <<"n","a","n">> THEN Success(NaN)
        ELSE IF word \in {<<"i","n","f">>, <<"i","n","f","i","n","i","t","y">>}
        THEN Success(Inf(sign))
        ELSE IF /\ body # <<>>
                /\ \A i \in 1..Len(body) : IsDigit(body[i]) \/ body[i] = "."
                /\ Cardinality(dots) <= 1
                /\ \E i \in 1..Len(body) : IsDigit(body[i])
        THEN LET p == IF dots = {} THEN Len(body) + 1 ELSE CHOOSE i \in dots : TRUE
                 whole == SubSeq(body, 1, p - 1)
                 frac == SubSeq(body, p + 1, Len(body))
             IN  Success(Dec(sign * IntOf(whole \o frac), Pow10(Len(frac))))
        ELSE Failure

\* float(text.strip().replace(",", ".")), the conversion of ask_odds and
\* stake_text
parse_number(text) == PyFloat(Replace(Strip(text), ",", "."))

\* decimal digits of a natural number, str(n)
RECURSIVE DigitsOf(_)
DigitsOf(n) ==
    IF n < 10 THEN <<Digits[n + 1]>>
    ELSE DigitsOf(n \div 10) \o <<Digits[(n % 10) + 1]>>

\* "%02d"
Pad2(n) == IF n < 10 THEN <<"0">> \o DigitsOf(n) ELSE DigitsOf(n)

(***************************************************************************)
(* Parsing.                                                                *)
(***************************************************************************)
None == <<"None">>

IsWordChar(c) == IsLetter(c) \/ IsDigit(c) \/ c = "_"
\* \b at the gap before position i of t
WordBoundary(t, i) ==
    LET before == i > 1 /\ IsWordChar(t[i - 1])
        after == i <= Len(t) /\ IsWordChar(t[i])
    IN  before # after

AllDigits(t, i, len) == \A j \in i..(i + len - 1) : IsDigit(t[j])

\* the matches of \b(\d{1,2})[/-](\d{1,2})[/-](\d{2,4})\b in t, as
\* <<start, len1, len2, len3>>
DateMatches(t) ==
    {m \in (1..Len(t)) \X (1..2) \X (1..2) \X (2..4) :
        LET i == m[1]
            s1 == i + m[2]
            s2 == s1 + 1 + m[3]
            e == s2 + 1 + m[4]
        IN  /\ e - 1 <= Len(t)
            /\ WordBoundary(t, i)
            /\ AllDigits(t, i, m[2])
            /\ t[s1] \in {"/", "-"}
            /\ AllDigits(t, s1 + 1, m[3])
            /\ t[s2] \in {"/", "-"}
            /\ AllDigits(t, s2 + 1, m[4])
            /\ WordBoundary(t, e)}

\* m is tried before n: leftmost start, then each greedy count as long as
\* it can be
DateBefore(m, n) ==
    \/ m[1] < n[1]
    \/ m[1] = n[1] /\ m[2] > n[2]
    \/ m[1] = n[1] /\ m[2] = n[2] /\ m[3] > n[3]
    \/ m[1] = n[1] /\ m[2] = n[2] /\ m[3] = n[3] /\ m[4] >= n[4]

IsLeap(y) == (y % 4 = 0 /\ y % 100 # 0) \/ y % 400 = 0
DaysIn(mth, y) ==
    IF mth = 2 THEN (IF IsLeap(y) THEN 29 ELSE 28)
    ELSE IF mth \in {4, 6, 9, 11} THEN 30 ELSE 31

\* DATE_OUT_FMT "%d/%m/%Y"
FormatDate(d, mth, y) == Pad2(d) \o <<"/">> \o Pad2(mth) \o <<"/">> \o DigitsOf(y)

parse_date_ddmmyyyy(text) ==
    LET ms == DateMatches(text)
    IN  IF ms = {} THEN None
        ELSE LET m == CHOOSE x \in ms : \A z \in ms : DateBefore(x, z)
                 d == IntOf(SubSeq(text, m[1], m[1] + m[2] - 1))
                 mth == IntOf(SubSeq(text, m[1] + m[2] + 1, m[1] + m[2] + m[3]))
                 y0 == IntOf(SubSeq(text, m[1] + m[2] + m[3] + 2,
                                    m[1] + m[2] + m[3] + m[4] + 1))
                 y == IF y0 < 100 THEN y0 + 2000 ELSE y0
             IN  IF y >= 1 /\ mth \in 1..12 /\ d \in 1..DaysIn(mth, y)
                 THEN FormatDate(d, mth, y)
                 ELSE None

\* the separators (?:vs\.?|v\.?|[-\u2013\u2014]) in the order the regex
\* tries them, matched ignoring case
TeamSeparators ==
    << <<"v","s",".">>, <<"v","s">>, <<"v",".">>, <<"v">>,
       <<"-">>, <<EN_DASH>>, <<EM_DASH>> >>

\* characters group 1 of the teams regex may not hold
NotInFirstTeam == {"\n", "-", EN_DASH, EM_DASH}

\* group 1 of the teams regex, ([^\n\-]+?), as <<start, len>>
FirstTeams(t) ==
    {f \in (1..Len(t)) \X (1..Len(t)) :
        /\ f[1] + f[2] <= Len(t)
        /\ \A j \in f[1]..(f[1] + f[2] - 1) : t[j] \notin NotInFirstTeam}

\* what \s* can take at position p of t
WsRuns(t, p) == {w \in 0..(Len(t) + 1 - p) : \A j \in p..(p + w - 1) : IsSpace(t[j])}

\* the matches of ([^\n\-]+?)\s*(?:sep)\s*([^\n]+) in t, as
\* <<start, len1, ws1, separator, ws2>>; group 2 runs from the end of ws2
\* to the end of the line
TeamMatches(t) ==
    UNION {
        UNION {
            UNION {
                LET r == f[1] + f[2] + w1 + Len(TeamSeparators[a])
                IN  {<<f[1], f[2], w1, a, w2>> : w2 \in
                        {w \in WsRuns(t, r) : r + w <= Len(t) /\ t[r + w] # "\n"}}
                : a \in {x \in 1..Len(TeamSeparators) :
                            LET q == f[1] + f[2] + w1
                                sep == TeamSeparators[x]
                            IN  /\ q + Len(sep) - 1 <= Len(t)
                                /\ Lower(SubSeq(t, q, q + Len(sep) - 1)) = sep} }
            : w1 \in WsRuns(t, f[1] + f[2]) }
        : f \in FirstTeams(t) }

\* m is tried before n: leftmost start, lazy group 1, greedy \s*, the
\* separators in order, greedy \s*
TeamBefore(m, n) ==
    \/ m[1] < n[1]
    \/ m[1] = n[1] /\ m[2] < n[2]
    \/ m[1] = n[1] /\ m[2] = n[2] /\ m[3] > n[3]
    \/ m[1] = n[1] /\ m[2] = n[2] /\ m[3] = n[3] /\ m[4] < n[4]
    \/ m[1] = n[1] /\ m[2] = n[2] /\ m[3] = n[3] /\ m[4] = n[4] /\ m[5] >= n[5]

\* end of the line that holds position g
LineEnd(t, g) ==
    LET nl == {j \in g..Len(t) : t[j] = "\n"}
    IN  IF nl = {} THEN Len(t) ELSE (CHOOSE j \in nl : \A z \in nl : j <= z) - 1

parse_teams(text) ==
    LET ms == TeamMatches(text)
    IN  IF ms = {} THEN None
        ELSE LET m == CHOOSE x \in ms : \A z \in ms : TeamBefore(x, z)
                 g == m[1] + m[2] + m[3] + Len(TeamSeparators[m[4]]) + m[5]
                 a == Strip(CollapseWs(SubSeq(text, m[1], m[1] + m[2] - 1)))
                 b == Strip(CollapseWs(SubSeq(text, g, LineEnd(text, g))))
             IN  a \o <<" ","v","s"," ">> \o b

(***************************************************************************)
(* Configuration and the Draft.                                            *)
(***************************************************************************)
\* DEFAULT_STAKE = float(os.getenv("DEFAULT_STAKE", "1"))
DEFAULT_STAKE == Dec(1, 1)
MEMORY_TTL_DAYS == 30
MEMORY_NAMESPACE == "ingestador:v1"
APUESTA_DEFAULT_CELL == <<"J","1">>
ALLOWED_SELECTIONS == {<<"1">>, <<"X">>, <<"2">>, <<"1","X">>, <<"X","2">>, <<"1","2">>}
\* the threshold 1.01 of ask_odds and receive_text
MIN_ODDS == Dec(101, 100)

\* the conversation states, and ConversationHandler.END
ASK_TEAMS == "ASK_TEAMS"
ASK_SELECTION == "ASK_SELECTION"
ASK_ODDS == "ASK_ODDS"
ASK_STAKE == "ASK_STAKE"
CONFIRM == "CONFIRM"
END == "END"
States == {ASK_TEAMS, ASK_SELECTION, ASK_ODDS, ASK_STAKE, CONFIRM}

\* Draft(): the dataclass defaults. The field raw, which keeps the seeding
\* text and is never read, is left out.
Draft ==
    [date |-> <<>>, teams |-> <<>>, selection |-> <<>>, odds |-> Dec(0, 1),
     stake |-> DEFAULT_STAKE, result |-> "Pendiente", betId |-> <<>>]

\* hashlib.sha256(...).hexdigest(), taken as injective: the digest stands for
\* the string it was computed from
sha256(s) == s

\* dedupe_key hashing the fields as they were typed
dedupe_key_cased(d) ==
    <<MEMORY_NAMESPACE,
      sha256(d.date \o <<"|">> \o d.teams \o <<"|">> \o d.selection)>>

\* Draft.dedupe_key
dedupe_key(d) ==
    <<MEMORY_NAMESPACE,
      sha256(Lower(d.date \o <<"|">> \o d.teams \o <<"|">> \o d.selection))>>

\* valid_cell_a1: re.fullmatch(r"[A-Za-z]+[0-9]+", s)
valid_cell_a1(s) ==
    \E k \in 1..(Len(s) - 1) :
        /\ \A i \in 1..k : IsLetter(s[i])
        /\ \A i \in (k + 1)..Len(s) : IsDigit(s[i])

(***************************************************************************)
(* The worlds of the model: a deployment (the environment the process was  *)
(* started with), the chats in which the user talks to the bot, and the    *)
(* texts the user sends. A behaviour stays in one world.                   *)
(***************************************************************************)
Chats == {"c1", "c2"}
Users == {"u1"}
\* a user id that takes no part, for an allow-list that leaves u1 out
OtherUser == "u2"

T_TEAMS == <<"A"," ","v","s"," ","B">>
T_ONE == <<"1">>
T_OTRO == <<"O","t","r","o">>
T_ODDS == <<"1",",","8","5">>
T_ZERO == <<"0">>
T_RETURN == <<"B"," ","v","s"," ","A">>
T_LOW == <<"0",".","9","9">>
T_DRAW == <<"x">>
T_DASH == <<"A","-","B">>
T_MADRID ==
    <<"R","e","a","l"," ","M","a","d","r","i","d",
      " ","v","s"," ","B","a","r","c","e","l","o","n","a">>
Texts ==
    {T_TEAMS, T_ONE, T_OTRO, T_ODDS, T_ZERO, T_RETURN, T_LOW, T_MADRID, T_DRAW,
     T_DASH}

\* context.args of /modificarcelda
CellArgs == {<<>>, << <<"j","1">> >>, << <<"1","j">> >>}

\* DEDUPE_ENABLED, whether REDIS_REST_URL and REDIS_REST_TOKEN are both
\* set, and APUESTA_ALLOWED_USER_IDS
Deployment(dedupe, redis_rest, allowed) ==
    [dedupe_enabled |-> dedupe, redis_configured |-> redis_rest,
     allowed_user_ids |-> allowed]

Commands == {"start", "cancel", "apuesta", "modificarcelda"}

World(chats, texts, commands, deployment, calls, ticks) ==
    [chats |-> chats, texts |-> texts, commands |-> commands,
     config |-> deployment, calls |-> calls, ticks |-> ticks]

\* one chat, a text for every branch of the handlers, time passing
WorldTexts ==
    World({"c1"}, {T_TEAMS, T_ONE, T_OTRO, T_ODDS, T_ZERO}, {"start", "cancel"},
          Deployment(TRUE, TRUE, {}), MaxSheetCalls, MaxClock)
\* the same user in two chats, within one tick of the clock and up to the
\* first call of send_to_sheets
WorldChats ==
    World(Chats, {T_TEAMS, T_ODDS}, {"cancel"}, Deployment(TRUE, TRUE, {}), 1, 1)
\* repeated submissions of one bet
WorldRepeat ==
    World({"c1"}, {T_TEAMS, T_ODDS}, {"cancel"}, Deployment(TRUE, TRUE, {}),
          MaxSheetCalls + 1, 1)
\* the commands, for a user on no allow-list and, with no store configured,
\* for a user left out of the list
WorldCommands ==
    World({"c1"}, {T_TEAMS, T_ODDS}, Commands, Deployment(TRUE, TRUE, {}),
          MaxSheetCalls, 1)
WorldDenied ==
    World({"c1"}, {T_TEAMS, T_LOW, T_ODDS}, Commands, Deployment(TRUE, FALSE, {OtherUser}),
          MaxSheetCalls, 1)
\* two fixtures, dedupe switched off
WorldNoDedupe ==
    World({"c1"}, {T_TEAMS, T_RETURN, T_ODDS}, {"start", "cancel"},
          Deployment(FALSE, TRUE, {}), MaxSheetCalls, 1)
\* the texts of a bet on Real Madrid vs Barcelona
WorldScenario ==
    World({"c1"}, {T_MADRID, T_ONE, T_ODDS}, {"cancel"}, Deployment(TRUE, TRUE, {}),
          MaxSheetCalls, 1)
\* a selection typed after "Otro", and a fixture written with a dash
WorldSelection ==
    World({"c1"}, {T_TEAMS, T_OTRO, T_DRAW, T_DASH}, {"cancel"},
          Deployment(TRUE, TRUE, {}),
          MaxSheetCalls, 1)

Worlds ==
    {WorldTexts, WorldChats, WorldRepeat, WorldCommands, WorldDenied, WorldNoDedupe,
     WorldScenario, WorldSelection}

\* outcomes of one HTTP call: a response, or an exception (transport error,
\* timeout, HTTP error status)
HttpOutcomes == {"ok", "error"}
\* send_to_sheets and read_cell_from_sheets: a response with ok, a response
\* without ok, or an exception
SheetOutcomes == {"ok", "not_ok", "error"}

VARIABLES
    world,          \* the world the behaviour is in
    conversations,  \* ConversationHandler: state per (chat, user) key
    user_data,      \* context.user_data, one dict per user
    clock,          \* the system clock, in ticks
    redis,          \* the Upstash store: dedupe keys and apuesta cells
    sheet_calls,    \* the send_to_sheets calls made, with their outcomes
    out,            \* the last reply sent
    probe           \* a call of a pure function on its own: arguments and result

vars == <<world, conversations, user_data, clock, redis, sheet_calls, out, probe>>

config == world.config

Keys == Chats \X Users

\* user_data.clear(), and a user's dict before anything is stored
EmptyUserData == [draft |-> <<>>, awaiting_stake_input |-> FALSE]

HasDraft(ud) == ud.draft # <<>>
\* context.user_data.get("draft") or Draft()
DraftOrNew(ud) == IF HasDraft(ud) THEN ud.draft[1] ELSE Draft
\* context.user_data["draft"] = draft
StoreDraft(ud, d) == [ud EXCEPT !.draft = <<d>>]
\* a field assigned on the draft object before it is stored: it changes
\* user_data only when the object came from there
MutateDraft(ud, d) == IF HasDraft(ud) THEN StoreDraft(ud, d) ELSE ud

\* no function is called on its own while the bot runs
NoProbe == [fn |-> "none", args |-> <<>>, result |-> <<>>]
\* the result of a call not made yet
Pending == <<"Pending">>

\* the process starts in world w
InitIn(w) ==
    /\ world = w
    /\ conversations = [k \in Keys |-> END]
    /\ user_data = [u \in Users |-> EmptyUserData]
    /\ clock = 1
    /\ redis = [dedupe |-> {}, cell |-> [u \in Users |-> None]]
    /\ sheet_calls = <<>>
    /\ out = [msg |-> "none", arg |-> <<>>]
    /\ probe = NoProbe

Init == \E w \in Worlds : InitIn(w)

(***************************************************************************)
(* Time.                                                                   *)
(***************************************************************************)
\* ticks of the clock in one calendar day
TicksPerDay == 8

\* today_str(): the date of the clock's day as DD/MM/YYYY
today_str(now) == FormatDate(1 + (now \div TicksPerDay), 11, 2026)

\* gen_bet_id(): "B" + the timestamp + four hex digits of its SHA-1, which
\* the timestamp determines
gen_bet_id(now) == <<"B">> \o DigitsOf(now)

\* the bot is followed until it has made the world's number of calls of
\* send_to_sheets
Followed == Len(sheet_calls) < world.calls

\* time passes
Tick ==
    /\ Followed
    /\ clock < world.ticks
    /\ clock' = clock + 1
    /\ UNCHANGED <<world, probe, conversations, user_data, redis, sheet_calls, out>>

(***************************************************************************)
(* The handlers. Each gives what it leaves in the user's dict, the state   *)
(* it returns (NoReturn: the handler returns None and the conversation     *)
(* keeps its state), the reply it sends and the inline keyboard it shows.  *)
(* An inline keyboard stays in the chat's history, across conversations    *)
(* and restarts of the process, so a button press can arrive at any time.  *)
(***************************************************************************)
NoReturn == "None"

Result(ud, next, msg, kb) == [ud |-> ud, next |-> next, msg |-> msg, kb |-> kb]

\* " vs " in txt or " VS " in txt.upper()
LooksLikeTeams(txt) ==
    \/ Contains(txt, <<" ","v","s"," ">>)
    \/ Contains(Upper(txt), <<" ","V","S"," ">>)

\* smart_seed
smart_seed(text, now) ==
    LET date == parse_date_ddmmyyyy(text)
        teams == parse_teams(text)
    IN  [Draft EXCEPT !.date = IF date # None /\ date # <<>> THEN date ELSE today_str(now),
                      !.teams = IF teams # None THEN teams ELSE <<>>]

ask_selection(ud, text) ==
    LET draft == DraftOrNew(ud)
        choice == Upper(Strip(text))
    IN  IF choice = <<"O","T","R","O">>
        THEN Result(ud, ASK_SELECTION, "free_selection_prompt", "none")
        ELSE LET sel == IF choice # <<>> /\ choice \in ALLOWED_SELECTIONS
                        THEN choice ELSE Strip(text)
             IN  Result(StoreDraft(ud, [draft EXCEPT !.selection = sel]),
                        ASK_ODDS, "odds_prompt", "none")

\* ask_odds ending the conversation on a text it rejects
ask_odds_ending(ud, text) ==
    LET draft == DraftOrNew(ud)
        parsed == parse_number(text)
    IN  IF ~parsed.ok
        THEN Result(ud, END, "odds_invalid", "none")
        ELSE IF FLt(parsed.v, MIN_ODDS)
        THEN Result(MutateDraft(ud, [draft EXCEPT !.odds = parsed.v]),
                    END, "odds_invalid", "none")
        ELSE Result(StoreDraft(ud, [draft EXCEPT !.odds = parsed.v]),
                    ASK_STAKE, "stake_prompt", "none")

ask_odds(ud, text) ==
    LET draft == DraftOrNew(ud)
        parsed == parse_number(text)
    IN  IF ~parsed.ok
        THEN Result(ud, ASK_ODDS, "odds_invalid", "none")
        ELSE IF FLt(parsed.v, MIN_ODDS)
        THEN \* draft.odds was assigned before the check raised
             Result(MutateDraft(ud, [draft EXCEPT !.odds = parsed.v]),
                    ASK_ODDS, "odds_invalid", "none")
        ELSE Result(StoreDraft(ud, [draft EXCEPT !.odds = parsed.v]),
                    ASK_STAKE, "stake_prompt", "none")

stake_text(ud, text, now) ==
    LET draft == DraftOrNew(ud)
        parsed == parse_number(text)
    IN  IF ~parsed.ok \/ FLe(parsed.v, Dec(0, 1))
        THEN Result(ud, ASK_STAKE, "stake_invalid", "stake")
        ELSE Result(StoreDraft(ud, [draft EXCEPT !.stake = parsed.v,
                                                 !.betId = gen_bet_id(now)]),
                    CONFIRM, "confirm_prompt", "confirm")

\* ask_stake with no return after "Cambiar importe"
ask_stake_not_returning(ud, data, now) ==
    LET draft == DraftOrNew(ud)
    IN  IF data = "stake_default"
        THEN Result(StoreDraft(ud, [draft EXCEPT !.stake = DEFAULT_STAKE,
                                                 !.betId = gen_bet_id(now)]),
                    CONFIRM, "confirm_prompt", "confirm")
        ELSE Result([ud EXCEPT !.awaiting_stake_input = TRUE],
                    NoReturn, "stake_amount_prompt", "none")

\* ask_stake leaving the betId to a later step
ask_stake_without_id(ud, data, now) ==
    LET draft == DraftOrNew(ud)
    IN  IF data = "stake_default"
        THEN Result(StoreDraft(ud, [draft EXCEPT !.stake = DEFAULT_STAKE]),
                    CONFIRM, "confirm_prompt", "confirm")
        ELSE Result([ud EXCEPT !.awaiting_stake_input = TRUE],
                    ASK_STAKE, "stake_amount_prompt", "none")

ask_stake(ud, data, now) ==
    LET draft == DraftOrNew(ud)
    IN  IF data = "stake_default"
        THEN Result(StoreDraft(ud, [draft EXCEPT !.stake = DEFAULT_STAKE,
                                                 !.betId = gen_bet_id(now)]),
                    CONFIRM, "confirm_prompt", "confirm")
        ELSE Result([ud EXCEPT !.awaiting_stake_input = TRUE],
                    ASK_STAKE, "stake_amount_prompt", "none")

\* receive_text taking the teams from every text that looks like teams
receive_text_retaking(ud, text, now) ==
    LET txt == Strip(text)
    IN  IF HasDraft(ud)
        THEN LET draft == ud.draft[1]
             IN  IF LooksLikeTeams(txt)
                 THEN Result(StoreDraft(ud, [draft EXCEPT !.teams = txt]),
                             ASK_SELECTION, "selection_prompt", "none")
                 ELSE IF draft.teams = <<>>
                 THEN Result(ud, ASK_TEAMS, "teams_invalid", "none")
                 ELSE IF draft.selection = <<>>
                 THEN ask_selection(ud, text)
                 ELSE IF ~FTruthy(draft.odds) \/ FLt(draft.odds, MIN_ODDS)
                 THEN ask_odds(ud, text)
                 ELSE stake_text(ud, text, now)
        ELSE LET draft == smart_seed(txt, now)
             IN  IF draft.teams = <<>>
                 THEN Result(StoreDraft(ud, draft), ASK_TEAMS, "teams_invalid", "none")
                 ELSE Result(StoreDraft(ud, draft), ASK_SELECTION, "selection_prompt", "none")

receive_text(ud, text, now) ==
    LET txt == Strip(text)
    IN  IF HasDraft(ud)
        THEN LET draft == ud.draft[1]
             IN  IF draft.teams = <<>>
                 THEN IF LooksLikeTeams(txt)
                      THEN Result(StoreDraft(ud, [draft EXCEPT !.teams = txt]),
                                  ASK_SELECTION, "selection_prompt", "none")
                      ELSE Result(ud, ASK_TEAMS, "teams_invalid", "none")
                 ELSE IF draft.selection = <<>>
                 THEN ask_selection(ud, text)
                 ELSE IF ~FTruthy(draft.odds) \/ FLt(draft.odds, MIN_ODDS)
                 THEN ask_odds(ud, text)
                 ELSE stake_text(ud, text, now)
        ELSE LET draft == smart_seed(txt, now)
             IN  IF draft.teams = <<>>
                 THEN Result(StoreDraft(ud, draft), ASK_TEAMS, "teams_invalid", "none")
                 ELSE Result(StoreDraft(ud, draft), ASK_SELECTION, "selection_prompt", "none")

\* cancel ending the conversation with the dict left as it is
cancel_keeping(ud) == Result(ud, END, "cancelled", "none")

cancel(ud) == Result(EmptyUserData, END, "cancelled", "none")

\* a check that lets every user in
is_allowed_user_open(user_id) == TRUE

\* is_allowed_user
is_allowed_user(user_id) ==
    IF config.allowed_user_ids = {} THEN TRUE
    ELSE user_id \in config.allowed_user_ids

(***************************************************************************)
(* ConversationHandler: the update goes to the first matching entry point  *)
(* (allow_reentry: in every state), else to the first matching handler of  *)
(* the key's state, else to the first matching fallback; the state the     *)
(* handler returns is stored for the key, END removing it.                 *)
(***************************************************************************)
\* _update_state, with the reply and keyboard the handler sent
Handled(c, u, res) ==
    /\ user_data' = [user_data EXCEPT ![u] = res.ud]
    /\ conversations' =
           IF res.next = NoReturn THEN conversations
           ELSE [conversations EXCEPT ![<<c, u>>] = res.next]
    /\ out' = [msg |-> res.msg, arg |-> <<>>]

\* a text that is no command: the entry point MessageHandler(TEXT & ~COMMAND)
TextStep(c, u, text) ==
    /\ Followed
    /\ UNCHANGED <<world, probe, clock, redis, sheet_calls>>
    /\ Handled(c, u, receive_text(user_data[u], text, clock))

TextMessage(c, u) == \E text \in world.texts : TextStep(c, u, text)

\* a press of "Usar 1 EUR" or "Cambiar importe": CallbackQueryHandler(ask_stake)
\* of state ASK_STAKE
StakeButton(c, u) ==
    /\ Followed
    /\ conversations[<<c, u>>] = ASK_STAKE
    /\ UNCHANGED <<world, probe, clock, redis, sheet_calls>>
    /\ \E data \in {"stake_default", "stake_change"} :
           Handled(c, u, ask_stake(user_data[u], data, clock))

\* /cancel: the fallback, reached in any state of a running conversation
CancelCommand(c, u) ==
    /\ Followed
    /\ "cancel" \in world.commands
    /\ conversations[<<c, u>>] # END
    /\ UNCHANGED <<world, probe, clock, redis, sheet_calls>>
    /\ Handled(c, u, cancel(user_data[u]))

\* /start: an entry point; the handler replies and returns None
StartCommand(c, u) ==
    /\ Followed
    /\ "start" \in world.commands
    /\ UNCHANGED <<world, probe, clock, redis, sheet_calls>>
    /\ Handled(c, u, Result(user_data[u], NoReturn, "start_info", "none"))

(***************************************************************************)
(* The Upstash store and the Sheets web app.                               *)
(***************************************************************************)
\* upstash_exists: the answer the handler gets
upstash_exists(key, outcome) ==
    IF ~config.redis_configured THEN FALSE
    ELSE IF outcome = "ok" THEN \E e \in redis.dedupe : e.key = key
    ELSE FALSE

\* upstash_setex: the store afterwards. The value stored with the key (a
\* snapshot of the draft) is never read back and is left out.
upstash_setex(key, ttl_days, outcome) ==
    IF ~config.redis_configured THEN redis
    ELSE IF outcome = "ok"
    THEN LET ttl == IF 60 >= ttl_days * 24 * 3600 THEN 60 ELSE ttl_days * 24 * 3600
         IN  [redis EXCEPT !.dedupe =
                  {e \in @ : e.key # key} \cup {[key |-> key, ttl |-> ttl]}]
    ELSE redis

\* upstash_set of the apuesta cell: the store afterwards
upstash_set(u, value, outcome) ==
    IF ~config.redis_configured THEN redis
    ELSE IF outcome = "ok" THEN [redis EXCEPT !.cell[u] = value]
    ELSE redis

\* upstash_get of the apuesta cell: [ok, v], ok false where it raises
upstash_get(u, outcome) ==
    IF ~config.redis_configured THEN [ok |-> TRUE, v |-> None]
    ELSE IF outcome = "ok" THEN [ok |-> TRUE, v |-> redis.cell[u]]
    ELSE [ok |-> FALSE, v |-> None]

\* the payload of send_to_sheets
Payload(draft) ==
    [date |-> draft.date, teams |-> draft.teams, selection |-> draft.selection,
     odds |-> draft.odds, stake |-> draft.stake, result |-> draft.result,
     betId |-> draft.betId]

\* send_to_sheets: the call, recorded with what came back
send_to_sheets(draft, outcome) ==
    Append(sheet_calls, [payload |-> Payload(draft), outcome |-> outcome])

\* confirm storing the dedupe key whatever the post to Sheets came to
confirm_marking_always(ud, data, exists, sent, marked) ==
    LET draft == DraftOrNew(ud)
        key == dedupe_key(draft)
        base == [ud |-> EmptyUserData, next |-> END, kb |-> "none",
                 redis |-> redis, sheet_calls |-> sheet_calls, msg |-> "none"]
        stored == IF config.dedupe_enabled
                  THEN upstash_setex(key, MEMORY_TTL_DAYS, "ok") ELSE redis
    IN  IF data = "cancel"
        THEN [base EXCEPT !.msg = "confirm_cancelled"]
        ELSE IF config.dedupe_enabled /\ upstash_exists(key, exists)
        THEN [base EXCEPT !.msg = "duplicate"]
        ELSE IF sent = "ok"
        THEN [base EXCEPT !.msg = "sent",
                          !.sheet_calls = send_to_sheets(draft, sent),
                          !.redis = stored]
        ELSE [base EXCEPT !.msg = "send_failed",
                          !.sheet_calls = send_to_sheets(draft, sent),
                          !.redis = stored]

\* confirm posting the row before it looks at the button pressed
confirm_posting_first(ud, data, exists, sent, marked) ==
    LET draft == DraftOrNew(ud)
        key == dedupe_key(draft)
        base == [ud |-> EmptyUserData, next |-> END, kb |-> "none",
                 redis |-> redis, sheet_calls |-> send_to_sheets(draft, sent),
                 msg |-> "none"]
    IN  IF data = "cancel"
        THEN [base EXCEPT !.msg = "confirm_cancelled"]
        ELSE IF config.dedupe_enabled /\ upstash_exists(key, exists)
        THEN [base EXCEPT !.msg = "duplicate"]
        ELSE IF sent = "ok"
        THEN [base EXCEPT !.msg = "sent",
                          !.redis = IF config.dedupe_enabled
                                    THEN upstash_setex(key, MEMORY_TTL_DAYS, marked)
                                    ELSE redis]
        ELSE [base EXCEPT !.msg = "send_failed"]

\* confirm keeping the Draft and the state when the post to Sheets failed
confirm_keeping_on_failure(ud, data, exists, sent, marked) ==
    LET draft == DraftOrNew(ud)
        key == dedupe_key(draft)
        base == [ud |-> EmptyUserData, next |-> END, kb |-> "none",
                 redis |-> redis, sheet_calls |-> sheet_calls, msg |-> "none"]
    IN  IF data = "cancel"
        THEN [base EXCEPT !.msg = "confirm_cancelled"]
        ELSE IF config.dedupe_enabled /\ upstash_exists(key, exists)
        THEN [base EXCEPT !.msg = "duplicate"]
        ELSE IF sent = "ok"
        THEN [base EXCEPT !.msg = "sent",
                          !.sheet_calls = send_to_sheets(draft, sent),
                          !.redis = IF config.dedupe_enabled
                                    THEN upstash_setex(key, MEMORY_TTL_DAYS, marked)
                                    ELSE redis]
        ELSE [base EXCEPT !.msg = "send_failed", !.ud = ud, !.next = CONFIRM,
                          !.sheet_calls = send_to_sheets(draft, sent)]

\* confirm: what the handler leaves behind, given the outcomes of its calls
\* (exists: EXISTS on the dedupe store, sent: the post to Sheets, marked:
\* SETEX on the dedupe store)
confirm(ud, data, exists, sent, marked) ==
    LET draft == DraftOrNew(ud)
        key == dedupe_key(draft)
        base == [ud |-> EmptyUserData, next |-> END, kb |-> "none",
                 redis |-> redis, sheet_calls |-> sheet_calls, msg |-> "none"]
    IN  IF data = "cancel"
        THEN [base EXCEPT !.msg = "confirm_cancelled"]
        ELSE IF config.dedupe_enabled /\ upstash_exists(key, exists)
        THEN [base EXCEPT !.msg = "duplicate"]
        ELSE IF sent = "ok"
        THEN [base EXCEPT !.msg = "sent",
                          !.sheet_calls = send_to_sheets(draft, sent),
                          !.redis = IF config.dedupe_enabled
                                    THEN upstash_setex(key, MEMORY_TTL_DAYS, marked)
                                    ELSE redis]
        ELSE [base EXCEPT !.msg = "send_failed",
                          !.sheet_calls = send_to_sheets(draft, sent)]

\* the outcomes of the calls one press leads to; the outcome of a call
\* that is not made is held at "ok"
CallOutcomes(data) ==
    {o \in [exists : HttpOutcomes, sent : SheetOutcomes, marked : HttpOutcomes] :
        /\ data = "cancel" => o.exists = "ok" /\ o.sent = "ok"
        /\ o.sent # "ok" => o.marked = "ok"}

\* a press of "Confirmar" or "Cancelar": CallbackQueryHandler(confirm) of
\* state CONFIRM
ConfirmButton(c, u) ==
    /\ Followed
    /\ conversations[<<c, u>>] = CONFIRM
    /\ UNCHANGED <<world, probe, clock>>
    /\ \E data \in {"confirm", "cancel"} : \E o \in CallOutcomes(data) :
           LET res == confirm(user_data[u], data, o.exists, o.sent, o.marked)
           IN  /\ sheet_calls' = res.sheet_calls
               /\ redis' = res.redis
               /\ Handled(c, u, res)

\* cmd_apuesta: the reply, given the outcomes of reading the stored cell and
\* of reading the cell's value from Sheets
cmd_apuesta(u, got, read) ==
    IF ~is_allowed_user(u) THEN [msg |-> "apuesta_denied", arg |-> <<>>]
    ELSE LET v == upstash_get(u, got)
             cell == IF v.ok /\ v.v # None /\ v.v # <<>> THEN v.v ELSE APUESTA_DEFAULT_CELL
         IN  IF read = "ok" THEN [msg |-> "apuesta_value", arg |-> cell]
             ELSE [msg |-> "apuesta_error", arg |-> cell]

\* /apuesta: an entry point; the handler replies and returns None
ApuestaCommand(c, u) ==
    \E got \in HttpOutcomes, read \in SheetOutcomes :
        /\ Followed
        /\ "apuesta" \in world.commands
        /\ out' = cmd_apuesta(u, got, read)
        /\ UNCHANGED <<world, probe, conversations, user_data, clock, redis, sheet_calls>>

\* cmd_modificar_celda: the reply and the store afterwards
cmd_modificar_celda(u, args, saved) ==
    IF ~is_allowed_user(u) THEN [msg |-> "modificar_denied", arg |-> <<>>, redis |-> redis]
    ELSE IF args = <<>> THEN [msg |-> "modificar_usage", arg |-> <<>>, redis |-> redis]
    ELSE LET cell == Upper(args[1])
         IN  IF ~valid_cell_a1(cell)
             THEN [msg |-> "modificar_invalid", arg |-> <<>>, redis |-> redis]
             ELSE IF config.redis_configured /\ saved # "ok"
             THEN [msg |-> "modificar_failed", arg |-> <<>>, redis |-> redis]
             ELSE [msg |-> "modificar_done", arg |-> cell,
                   redis |-> upstash_set(u, cell, saved)]

\* /modificarcelda: an entry point; the handler replies and returns None
ModificarCeldaCommand(c, u) ==
    \E args \in CellArgs, saved \in HttpOutcomes :
        LET res == cmd_modificar_celda(u, args, saved)
        IN  /\ Followed
            /\ "modificarcelda" \in world.commands
            /\ out' = [msg |-> res.msg, arg |-> res.arg]
            /\ redis' = res.redis
            /\ UNCHANGED <<world, probe, conversations, user_data, clock, sheet_calls>>

Next ==
    \/ Tick
    \/ \E c \in world.chats, u \in Users : TextMessage(c, u)
    \/ \E c \in world.chats, u \in Users : StakeButton(c, u)
    \/ \E c \in world.chats, u \in Users : ConfirmButton(c, u)
    \/ \E c \in world.chats, u \in Users : CancelCommand(c, u)
    \/ \E c \in world.chats, u \in Users : StartCommand(c, u)
    \/ \E c \in world.chats, u \in Users : ApuestaCommand(c, u)
    \/ \E c \in world.chats, u \in Users : ModificarCeldaCommand(c, u)

Spec == Init /\ [][Next]_vars

(***************************************************************************)
(* The pure functions on their own: _parse_teams and Draft.dedupe_key are  *)
(* called on arguments drawn from bounded sets, with no bot running.       *)
(***************************************************************************)
\* longest run of spaces put around the parts of a teams text
MaxPad == 1

\* n spaces
Spaces(n) == [i \in 1..n |-> " "]

\* the sides of a fixture: none, plain, with inner whitespace, with a "v"
\* inside, with a dash inside
Sides ==
    {<<>>, <<"A">>, <<"R"," ","M">>, <<"R"," "," ","M">>, <<"S","e","v">>,
     <<"A","-","B">>}

\* the text lead a gap1 sep gap2 b trail
TeamsText(t) ==
    Spaces(t.lead) \o t.a \o Spaces(t.gap1) \o t.sep \o Spaces(t.gap2) \o t.b
        \o Spaces(t.trail)

\* texts made of two sides, a separator "vs" or none, and runs of spaces
TeamsInputs ==
    [lead : 0..MaxPad, a : Sides, gap1 : 1..MaxPad, sep : {<<"v","s">>, <<>>},
     gap2 : 1..MaxPad, b : Sides, trail : 0..MaxPad]

\* Drafts that differ in date, teams or selection: in a letter's case, in a
\* whole field, and in where a "|" stands
DraftInputs ==
    {[Draft EXCEPT !.date = d, !.teams = t, !.selection = sel] :
        d \in {<<"0","1","/","1","1","/","2","0","2","6">>,
               <<"0","2","/","1","1","/","2","0","2","6">>},
        t \in {T_TEAMS, Lower(T_TEAMS), T_RETURN, <<"A">>, <<"A","|","x">>},
        sel \in {<<"1">>, <<"X">>, <<"x">>, <<"x","|","1">>}}

Probes ==
    {[fn |-> "parse_teams", args |-> t, result |-> Pending] : t \in TeamsInputs}
        \cup {[fn |-> "dedupe_key", args |-> <<d1, d2>>, result |-> Pending] :
                d1 \in DraftInputs, d2 \in DraftInputs}

InitFunctions ==
    /\ world = WorldTexts
    /\ conversations = [k \in Keys |-> END]
    /\ user_data = [u \in Users |-> EmptyUserData]
    /\ clock = 1
    /\ redis = [dedupe |-> {}, cell |-> [u \in Users |-> None]]
    /\ sheet_calls = <<>>
    /\ out = [msg |-> "none", arg |-> <<>>]
    /\ probe \in Probes

\* _parse_teams(text)
ParseTeamsCall ==
    /\ probe.fn = "parse_teams"
    /\ probe.result = Pending
    /\ probe' = [probe EXCEPT !.result = parse_teams(TeamsText(probe.args))]
    /\ UNCHANGED <<world, conversations, user_data, clock, redis, sheet_calls, out>>

\* d1.dedupe_key(), d2.dedupe_key()
DedupeKeyCall ==
    /\ probe.fn = "dedupe_key"
    /\ probe.result = Pending
    /\ probe' = [probe EXCEPT !.result =
                    <<dedupe_key(probe.args[1]), dedupe_key(probe.args[2])>>]
    /\ UNCHANGED <<world, conversations, user_data, clock, redis, sheet_calls, out>>

NextFunctions == ParseTeamsCall \/ DedupeKeyCall

SpecFunctions == InitFunctions /\ [][NextFunctions]_vars

(***************************************************************************)
(* Properties.                                                             *)
(***************************************************************************)
\* the update handled in a step was one of chat c and user u
UpdateFor(c, u) ==
    \/ TextMessage(c, u)
    \/ StakeButton(c, u)
    \/ ConfirmButton(c, u)
    \/ CancelCommand(c, u)
    \/ StartCommand(c, u)
    \/ ApuestaCommand(c, u)
    \/ ModificarCeldaCommand(c, u)

\* the calls of send_to_sheets that came back with ok
Committed == {i \in 1..Len(sheet_calls) : sheet_calls[i].outcome = "ok"}

\* C1: with dedupe enabled, whatever the outcomes of the calls to the dedupe
\* store and to Sheets, two confirmed submissions with the same date, teams
\* and selection lead to at most one successful send_to_sheets.
C1_AtMostOneCommit ==
    config.dedupe_enabled =>
        \A i, j \in Committed :
            dedupe_key(sheet_calls[i].payload) = dedupe_key(sheet_calls[j].payload)
                => i = j

\* C2: once the betId of a Draft is non-empty, no input replaces it: a step
\* that keeps the Draft keeps its betId.
C2_BetIdGeneratedOnce ==
    [][\A u \in Users :
          (/\ HasDraft(user_data[u])
           /\ user_data[u].draft[1].betId # <<>>
           /\ HasDraft(user_data'[u]))
          => user_data'[u].draft[1].betId = user_data[u].draft[1].betId]_vars

\* odds is unset or at least 1.01
ValidOdds(o) == o = Dec(0, 1) \/ FLe(MIN_ODDS, o)
\* stake is above 0
ValidStake(s) == FLt(Dec(0, 1), s)

\* C3: in every reachable state the odds of a Draft are unset (0.0) or a
\* validated value of at least 1.01, and its stake is above 0.
C3_OddsAndStakeValidated ==
    \A u \in Users :
        HasDraft(user_data[u]) =>
            /\ ValidOdds(user_data[u].draft[1].odds)
            /\ ValidStake(user_data[u].draft[1].stake)

\* C4: a step that handles an update of one (chat, user) key leaves the FSM
\* state and the Draft of every other key as they were, the key of the same
\* user in another chat included.
C4_SessionsIsolated ==
    [][\A c1 \in Chats, c2 \in Chats, u \in Users :
          (c1 # c2 /\ c1 \in world.chats /\ UpdateFor(c2, u))
          => /\ conversations'[<<c1, u>>] = conversations[<<c1, u>>]
             /\ user_data'[u] = user_data[u]]_vars

\* C6: a /start handled while a Draft exists leaves no field of that Draft in
\* the session: no Draft, or a Draft with no teams, selection, odds or betId
\* and the default stake.
C6_StartDiscardsDraft ==
    [][\A c \in Chats, u \in Users :
          (StartCommand(c, u) /\ HasDraft(user_data[u]))
          => \/ ~HasDraft(user_data'[u])
             \/ LET d == user_data'[u].draft[1]
                IN  /\ d.teams = <<>>
                    /\ d.selection = <<>>
                    /\ d.odds = Draft.odds
                    /\ d.stake = Draft.stake
                    /\ d.betId = <<>>]_vars

\* C8: a text handled while the FSM is in CONFIRM leaves the FSM state and
\* every field of the Draft unchanged.
C8_ConfirmIgnoresText ==
    [][\A c \in Chats, u \in Users :
          (conversations[<<c, u>>] = CONFIRM /\ TextMessage(c, u))
          => /\ conversations'[<<c, u>>] = CONFIRM
             /\ user_data'[u].draft = user_data[u].draft]_vars

\* C5: /cancel is handled in every state of a running conversation, and the
\* step that handles it empties the user's dict (Draft and flags), ends the
\* conversation and calls neither Sheets nor the dedupe store.
C5_CancelClearsSession ==
    /\ [](\A c \in Chats, u \in Users :
            (/\ c \in world.chats
             /\ "cancel" \in world.commands
             /\ Followed
             /\ conversations[<<c, u>>] \in States)
            => ENABLED CancelCommand(c, u))
    /\ [][\A c \in Chats, u \in Users :
            CancelCommand(c, u)
            => /\ user_data'[u] = EmptyUserData
               /\ conversations'[<<c, u>>] = END
               /\ sheet_calls' = sheet_calls
               /\ redis' = redis]_vars

\* a running conversation was cancelled with /cancel before anything was sent
C5_Cancelled ==
    /\ out.msg = "cancelled"
    /\ user_data["u1"] = EmptyUserData
    /\ \A k \in Keys : conversations[k] = END
    /\ sheet_calls = <<>>
    /\ redis.dedupe = {}

\* C7: send_to_sheets is called, and the dedupe store written, only by the
\* step that handles a press of "Confirmar" in CONFIRM; a step that handles a
\* text, a stake button, /cancel or a press of "Cancelar" changes neither
\* the calls made nor the store: a step that changes one of them is no such
\* step.
C7_DeferredCommit ==
    [][/\ (sheet_calls' # sheet_calls \/ redis'.dedupe # redis.dedupe)
          => \E c \in Chats, u \in Users :
                 /\ conversations[<<c, u>>] = CONFIRM
                 /\ out'.msg \in {"sent", "send_failed"}
                 /\ ConfirmButton(c, u)
       /\ (sheet_calls' # sheet_calls \/ redis' # redis)
          => \A c \in Chats, u \in Users :
                 /\ ~TextMessage(c, u)
                 /\ ~StakeButton(c, u)
                 /\ ~CancelCommand(c, u)
                 /\ ~(out'.msg = "confirm_cancelled" /\ ConfirmButton(c, u))]_vars

\* a confirmed Draft was sent and its key stored
C7_Sent ==
    /\ out.msg = "sent"
    /\ Len(sheet_calls) = 1
    /\ sheet_calls[1].payload.betId # <<>>
    /\ \E e \in redis.dedupe : e.key = dedupe_key(sheet_calls[1].payload)

\* the field a Draft is waiting for, as the state that asks for it
Awaited(ud) ==
    IF ~HasDraft(ud) THEN END
    ELSE LET draft == ud.draft[1]
         IN  IF draft.teams = <<>> THEN ASK_TEAMS
             ELSE IF draft.selection = <<>> THEN ASK_SELECTION
             ELSE IF ~FTruthy(draft.odds) \/ FLt(draft.odds, MIN_ODDS) THEN ASK_ODDS
             ELSE ASK_STAKE

\* the text is no valid value of the field state s asks for
Refused(s, text) ==
    LET parsed == parse_number(text)
    IN  CASE s = ASK_TEAMS -> ~LooksLikeTeams(Strip(text))
          [] s = ASK_ODDS -> ~parsed.ok \/ FLt(parsed.v, MIN_ODDS)
          [] s = ASK_STAKE -> ~parsed.ok \/ FLe(parsed.v, Dec(0, 1))
          [] OTHER -> FALSE

\* the reply that asks again for the field of state s
RePrompt(s) ==
    CASE s = ASK_TEAMS -> "teams_invalid"
      [] s = ASK_ODDS -> "odds_invalid"
      [] s = ASK_STAKE -> "stake_invalid"
      [] OTHER -> "none"

C10_TeamsImmutable ==
    [][\A u \in Users :
          (/\ HasDraft(user_data[u])
           /\ user_data[u].draft[1].teams # <<>>
           /\ HasDraft(user_data'[u]))
          => user_data'[u].draft[1].teams = user_data[u].draft[1].teams]_vars

\* a second fixture was sent after the teams were set, and was taken as the
\* selection
C10_SecondFixtureSent ==
    /\ HasDraft(user_data["u1"])
    /\ user_data["u1"].draft[1].teams = T_TEAMS
    /\ user_data["u1"].draft[1].selection = T_RETURN

\* the key of the Draft is in the dedupe store
KeyStored(ud) == \E e \in redis.dedupe : e.key = dedupe_key(DraftOrNew(ud))

\* C11: a confirm whose existence check finds the key posts nothing and is
\* answered as a duplicate; the dedupe store changes only in a step that
\* posts a row answered ok, by storing that row's key with the expiry of
\* MEMORY_TTL_DAYS; a confirm answered as duplicate or as failed stores
\* nothing.
C11_DedupeGateOrdering ==
    /\ [](\A c \in Chats, u \in Users :
            (/\ conversations[<<c, u>>] = CONFIRM
             /\ config.dedupe_enabled /\ config.redis_configured
             /\ KeyStored(user_data[u]))
            => \A sent \in SheetOutcomes, marked \in HttpOutcomes :
                   LET res == confirm(user_data[u], "confirm", "ok", sent, marked)
                   IN  /\ res.msg = "duplicate"
                       /\ res.sheet_calls = sheet_calls
                       /\ res.redis = redis)
    /\ [][/\ redis'.dedupe # redis.dedupe
             => /\ Len(sheet_calls') = Len(sheet_calls) + 1
                /\ LET call == sheet_calls'[Len(sheet_calls')]
                       key == dedupe_key(call.payload)
                   IN  /\ call.outcome = "ok"
                       /\ redis'.dedupe =
                              {e \in redis.dedupe : e.key # key}
                                  \cup {[key |-> key,
                                         ttl |-> MEMORY_TTL_DAYS * 24 * 3600]}
          /\ out'.msg \in {"duplicate", "send_failed", "confirm_cancelled"}
             => redis'.dedupe = redis.dedupe
          /\ (out'.msg = "duplicate" /\ \E c \in Chats, u \in Users : ConfirmButton(c, u))
             => sheet_calls' = sheet_calls]_vars

\* a second confirm of a sent Draft was answered as a duplicate
C11_DuplicateAborted ==
    /\ out.msg = "duplicate"
    /\ Len(sheet_calls) = 1
    /\ sheet_calls[1].outcome = "ok"
    /\ \E e \in redis.dedupe : e.key = dedupe_key(sheet_calls[1].payload)

\* dedupe_key was called on two Drafts
KeysComputed == probe.fn = "dedupe_key" /\ probe.result # Pending

\* the two Drafts differ in a field the key is made of
FieldsDiffer(d1, d2) ==
    d1.date # d2.date \/ d1.teams # d2.teams \/ d1.selection # d2.selection

\* the fields of the key in one line, letters in lower case
KeyLine(d) == Lower(d.date \o <<"|">> \o d.teams \o <<"|">> \o d.selection)

ScenarioRowPosted(calls, now) ==
    /\ calls # <<>>
    /\ LET call == calls[Len(calls)]
       IN  /\ call.outcome = "ok"
           /\ call.payload.teams = T_MADRID
           /\ call.payload.selection = T_ONE
           /\ call.payload.odds = Dec(185, 100)
           /\ call.payload.stake = DEFAULT_STAKE
           /\ call.payload.result = "Pendiente"
           /\ call.payload.betId # <<>>
           /\ call.payload.betId = gen_bet_id(now)

Answered(res) == res.msg # "none" /\ res.next \in States \cup {END}

\* C14: in every state of a running conversation /cancel and the buttons of
\* the state (the stake buttons in ASK_STAKE, "Confirmar" and "Cancelar" in
\* CONFIRM) are handled, and the handler of each of them, like receive_text
\* for every text, sends a reply and returns a state.
C14_Totality ==
    \A c \in Chats, u \in Users :
        LET s == conversations[<<c, u>>]
            ud == user_data[u]
        IN  (c \in world.chats /\ Followed /\ s \in States)
            => /\ "cancel" \in world.commands => ENABLED CancelCommand(c, u)
               /\ Answered(cancel(ud))
               /\ \A text \in world.texts : Answered(receive_text(ud, text, clock))
               /\ s = ASK_STAKE
                  => /\ ENABLED StakeButton(c, u)
                     /\ \A data \in {"stake_default", "stake_change"} :
                            Answered(ask_stake(ud, data, clock))
               /\ s = CONFIRM
                  => /\ ENABLED ConfirmButton(c, u)
                     /\ \A data \in {"confirm", "cancel"} :
                            \A o \in CallOutcomes(data) :
                                Answered(confirm(ud, data, o.exists, o.sent, o.marked))

\* "Cambiar importe" was pressed in ASK_STAKE and answered
C14_StakeChangeAnswered ==
    /\ out.msg = "stake_amount_prompt"
    /\ conversations[<<"c1", "u1">>] = ASK_STAKE
    /\ user_data["u1"].awaiting_stake_input

\* C15: after "Otro" was answered in ASK_SELECTION, the next text, if not
\* empty, is stored as it is as the selection of the Draft and the
\* conversation moves to ASK_ODDS.
C15_FreeSelectionVerbatim ==
    \A c \in Chats, u \in Users :
        (/\ c \in world.chats
         /\ conversations[<<c, u>>] = ASK_SELECTION
         /\ out.msg = "free_selection_prompt")
        => \A text \in world.texts :
               text # <<>>
               => LET res == receive_text(user_data[u], text, clock)
                  IN  /\ HasDraft(res.ud)
                      /\ res.ud.draft[1].selection = text
                      /\ res.next = ASK_ODDS

\* C16: with a non-empty allow-list, /apuesta or /modificarcelda from a user
\* who is not on it is answered with a denial in every state of the
\* conversation; the dedupe store and the calls to the sheet are left as they
\* were, and so are the state and the Draft of the user's session.
C16_DenialChangesNothing ==
    [][\A c \in Chats, u \in Users :
          (/\ config.allowed_user_ids # {}
           /\ u \notin config.allowed_user_ids
           /\ c \in world.chats
           /\ (ApuestaCommand(c, u) \/ ModificarCeldaCommand(c, u)))
          => /\ out'.msg \in {"apuesta_denied", "modificar_denied"}
             /\ UNCHANGED <<redis, sheet_calls, conversations, user_data>>]_vars

\* a denial reached with a Draft waiting for its confirmation
C16_DeniedInConfirm ==
    \E c \in Chats, u \in Users :
        /\ config.allowed_user_ids # {}
        /\ u \notin config.allowed_user_ids
        /\ out.msg = "modificar_denied"
        /\ conversations[<<c, u>>] = CONFIRM
        /\ HasDraft(user_data[u])

\* a side in which the pattern of _parse_teams finds no separator
Plain(side) == \A i \in 1..Len(side) : side[i] \notin {"v", "V", "-"}

\* C17: for a text made of A, "vs" and B with non-empty sides and any
\* whitespace before, after and inside, _parse_teams returns A' vs B', where
\* A' and B' are the sides stripped with their runs of whitespace collapsed to
\* one space; it returns None when the text holds no separator and when a
\* side is empty.
C17_ParseTeamsNormalizes ==
    (probe.fn = "parse_teams" /\ probe.result # Pending)
    => LET t == probe.args
       IN  /\ (t.sep = <<"v","s">> /\ t.a # <<>> /\ t.b # <<>>)
                => probe.result = Strip(CollapseWs(t.a)) \o <<" ","v","s"," ">>
                                      \o Strip(CollapseWs(t.b))
           /\ (t.sep = <<>> /\ Plain(t.a) /\ Plain(t.b)) => probe.result = None
           /\ (t.sep = <<"v","s">> /\ (t.a = <<>> \/ t.b = <<>>))
                => probe.result = None

\* C18: a text received while the Draft has no teams moves the conversation
\* to ASK_SELECTION exactly when _parse_teams accepts the text, and the teams
\* stored are then the result of _parse_teams, as when a new Draft is seeded
\* from the text.
C18_TeamsAgreeWithParse ==
    \A c \in Chats, u \in Users :
        (/\ c \in world.chats
         /\ HasDraft(user_data[u])
         /\ user_data[u].draft[1].teams = <<>>)
        => \A text \in world.texts :
               LET res == receive_text(user_data[u], text, clock)
                   parsed == parse_teams(Strip(text))
               IN  /\ res.next = ASK_SELECTION <=> parsed # None
                   /\ parsed # None
                        => /\ HasDraft(res.ud)
                           /\ res.ud.draft[1].teams = parsed
                           /\ res.ud.draft[1].teams = smart_seed(Strip(text), clock).teams

\* C19: a press of a button of the confirmation ends the conversation with
\* the session cleared, whatever came of it (row sent, duplicate found, sheet
\* answering not ok, either store failing or timing out), and posts the row
\* to the sheet at most once.
C19_ConfirmAlwaysEnds ==
    [][\A c \in Chats, u \in Users :
          (/\ c \in world.chats
           /\ conversations[<<c, u>>] = CONFIRM
           /\ ConfirmButton(c, u))
          => /\ user_data'[u] = EmptyUserData
             /\ conversations'[<<c, u>>] = END
             /\ out'.msg \in {"confirm_cancelled", "duplicate", "sent", "send_failed"}
             /\ Len(sheet_calls') <= Len(sheet_calls) + 1
             /\ out'.msg \in {"confirm_cancelled", "duplicate"}
                  => sheet_calls' = sheet_calls]_vars

\* a confirmation whose post to the sheet failed: the session is gone, the
\* conversation over, and the row was posted once
C19_FailedAndEnded ==
    \E c \in Chats, u \in Users :
        /\ out.msg = "send_failed"
        /\ user_data[u] = EmptyUserData
        /\ conversations[<<c, u>>] = END
        /\ Len(sheet_calls) = 1
        /\ sheet_calls[1].outcome # "ok"

\* a row with every field filled in
Complete(p) ==
    /\ p.date # <<>>
    /\ p.teams # <<>>
    /\ p.selection # <<>>
    /\ FLe(MIN_ODDS, p.odds)
    /\ ValidStake(p.stake)
    /\ p.betId # <<>>
    /\ p.result = "Pendiente"

\* C20: every row ever posted to the sheet is complete: date, teams,
\* selection and betId are not empty, odds are at least 1.01, stake is above
\* 0 and result is "Pendiente"; no sequence of updates gets a default or a
\* partly filled Draft posted.
C20_PostedRowsComplete ==
    \A i \in 1..Len(sheet_calls) : Complete(sheet_calls[i].payload)

====
